---------------------------- MODULE Spec2Model ----------------------------
(***************************************************************************)
(* A model of belta/spiders/belta_spider.py (BeltaSpider): the paginated   *)
(* listing crawl, the two-stage relevance decision, the keyword            *)
(* classifier, the listing-item and article date parsers, the personal     *)
(* name extractor and the notification composer.                           *)
(*                                                                         *)
(* Text is a sequence of symbols, one symbol per character of the source   *)
(* text.  A Cyrillic letter is written as its Latin transliteration, kept  *)
(* as ONE symbol ("zh", "ch", "ya", "soft", ...), capitalised for the      *)
(* upper-case letter ("Zh", "Ch", "Ya", ...).  The Latin capital T of the  *)
(* ISO template is the symbol "LT".  Digits, the blank and punctuation     *)
(* stand for themselves.  A URL and an onclick attribute are sequences of   *)
(* longer pieces ("https://belta.by", "/", "all_news/page/", "get_page(",   *)
(* "&amp;", ...), cut where the code looks at them.                         *)
(***************************************************************************)
EXTENDS Integers, Sequences, FiniteSets, TLC

VARIABLES
    started,      \* start_requests has run
    pending,      \* the requests Scrapy holds and has not yet answered
    out,          \* the record parse_article yielded last (<<>>: none yet)
    lastList,     \* what the last parse_news_list call met and did (history)
    lastArticle,  \* what the last parse_article call was given (history)
    crawl,        \* how the listing walk stands (history)
    ufn,          \* the pure function under study ("none" during a crawl)
    uin,          \* its input
    uout,         \* its result
    ustage        \* "idle" (crawl), "ready" (input drawn), "done" (function applied)

vars == <<started, pending, out, lastList, lastArticle, crawl, ufn, uin, uout, ustage>>
crawlVars == <<started, pending, out, lastList, lastArticle, crawl>>
unitVars == <<ufn, uin, uout, ustage>>

-----------------------------------------------------------------------------
(* Bounds of the model.                                                    *)

\* The listing pages of the site, and the items of a listing page.
MaxPages == 2
MaxItems == 2
\* The words of a text given to is_presidential_appointment, to extract_fio.
MaxWords == 2
MaxFioWords == 5

-----------------------------------------------------------------------------
(* Text: Python str operations used by the spider.                         *)

\* Python None / a selector's .get() that found nothing.
None == <<"<None>">>
\* The empty str.
Empty == <<>>

\* Python truthiness of an optional str: None and "" are false.
Truthy(s) == s # None /\ s # Empty

LowerLetters ==
    <<"a", "b", "v", "g", "d", "e", "yo", "zh", "z", "i", "j", "k", "l", "m",
      "n", "o", "p", "r", "s", "t", "u", "f", "h", "c", "ch", "sh", "sch",
      "hard", "y", "soft", "eh", "yu", "ya">>
UpperLetters ==
    <<"A", "B", "V", "G", "D", "E", "Yo", "Zh", "Z", "I", "J", "K", "L", "M",
      "N", "O", "P", "R", "S", "T", "U", "F", "H", "C", "Ch", "Sh", "Sch",
      "Hard", "Y", "Soft", "Eh", "Yu", "Ya">>

LowerSet == {LowerLetters[i] : i \in 1..Len(LowerLetters)}
UpperSet == {UpperLetters[i] : i \in 1..Len(UpperLetters)}

\* The regex classes [а-яё] and [А-ЯЁ].
IsLower(c) == c \in LowerSet
IsUpper(c) == c \in UpperSet
\* The regex classes \d and \s.
Digits == <<"0", "1", "2", "3", "4", "5", "6", "7", "8", "9">>
DigitSet == {Digits[i] : i \in 1..Len(Digits)}
IsDigit(c) == c \in DigitSet
IsSpace(c) == c \in {" ", "NL", "TAB"}

\* The lower-case letter of each upper-case letter.
LowerOf ==
    [c \in UpperSet |->
        LowerLetters[CHOOSE i \in 1..Len(UpperLetters) : UpperLetters[i] = c]]

\* str.lower() on one character.
LowerChar(c) ==
    IF IsUpper(c) THEN LowerOf[c] ELSE IF c = "LT" THEN "lt" ELSE c

\* str.lower().
Lower(s) == [i \in 1..Len(s) |-> LowerChar(s[i])]

\* needle in text (Python substring test).
Contains(text, needle) ==
    \E i \in 0..(Len(text) - Len(needle)) :
        \A j \in 1..Len(needle) : text[i + j] = needle[j]

\* ' '.join(parts) for a sequence of texts.
RECURSIVE JoinSpace(_)
JoinSpace(parts) ==
    IF Len(parts) = 0 THEN Empty
    ELSE IF Len(parts) = 1 THEN parts[1]
    ELSE parts[1] \o <<" ">> \o JoinSpace(Tail(parts))

\* str.strip(): leading and trailing whitespace removed.
RECURSIVE LStrip(_)
LStrip(s) == IF Len(s) > 0 /\ IsSpace(s[1]) THEN LStrip(Tail(s)) ELSE s
RECURSIVE RStrip(_)
RStrip(s) ==
    IF Len(s) > 0 /\ IsSpace(s[Len(s)]) THEN RStrip(SubSeq(s, 1, Len(s) - 1)) ELSE s
Strip(s) == RStrip(LStrip(s))

-----------------------------------------------------------------------------
(* RelevanceClassifier: __init__'s keyword lists, is_presidential_appointment. *)

RELEVANT_CATEGORIES ==
    <<<<"p","r","e","z","i","d","e","n","t">>,
      <<"p","o","l","i","t","i","k","a">>,
      <<"v","l","a","s","t","soft">>,
      <<"k","a","d","r","o","v","y","e"," ","r","e","sh","e","n","i","ya">>,
      <<"n","a","z","n","a","ch","e","n","i","ya">>,
      <<"u","k","a","z">>,
      <<"g","o","s","u","d","a","r","s","t","v","o">>>>

APPOINTMENT_PATTERNS ==
    <<<<"p","r","e","z","i","d","e","n","t"," ","n","a","z","n","a","ch","i","l">>,
      <<"u","k","a","z","o","m"," ","p","r","e","z","i","d","e","n","t","a"," ","n","a","z","n","a","ch","e","n">>,
      <<"p","r","e","z","i","d","e","n","t"," ","p","r","i","n","ya","l"," ","k","a","d","r","o","v","y","e"," ","r","e","sh","e","n","i","ya">>,
      <<"n","a","z","n","a","ch","e","n"," ","n","a"," ","d","o","l","zh","n","o","s","t","soft">>,
      <<"o","s","v","o","b","o","zh","d","e","n"," ","o","t"," ","d","o","l","zh","n","o","s","t","i">>,
      <<"o","s","v","o","b","o","zh","d","yo","n"," ","o","t"," ","d","o","l","zh","n","o","s","t","i">>,
      <<"n","a","z","n","a","ch","e","n","a"," ","n","a"," ","d","o","l","zh","n","o","s","t","soft">>,
      <<"n","a","z","n","a","ch","e","n">>,
      <<"n","a","z","n","a","ch","e","n","a">>,
      <<"n","a","z","n","a","ch","e","n","y">>,
      <<"p","r","i","s","v","o","e","n","o"," ","z","v","a","n","i","e">>,
      <<"p","r","i","s","v","o","e","n"," ","k","l","a","s","s">>,
      <<"n","a","z","n","a","ch","e","n","i","e">>,
      <<"k","a","d","r","o","v","y","e"," ","r","e","sh","e","n","i","ya">>,
      <<"p","e","r","e","m","e","sch","e","n","i","e">>,
      <<"u","v","o","l","soft","n","e","n","i","e">>,
      <<"o","t","s","t","a","v","k","a">>>>

\* any(k in text for k in keywords)
HasAny(keywords, text) == \E k \in 1..Len(keywords) : Contains(text, keywords[k])

\* A faulty variant of is_presidential_appointment: the text is not lower-cased.
IsPresidentialAppointment_NoLower(text) ==
    HasAny(RELEVANT_CATEGORIES, text) /\ HasAny(APPOINTMENT_PATTERNS, text)

IsPresidentialAppointment(text) ==
    LET text_lower == Lower(text)
        has_category == HasAny(RELEVANT_CATEGORIES, text_lower)
        has_appointment == HasAny(APPOINTMENT_PATTERNS, text_lower)
    IN  has_category /\ has_appointment

-----------------------------------------------------------------------------
(* datetime: a date-time is a record; NoDate is Python None.               *)

NoDate == [y |-> 0, m |-> 0, d |-> 0, H |-> 0, M |-> 0, S |-> 0]

IsLeap(y) == (y % 4 = 0 /\ y % 100 # 0) \/ y % 400 = 0

DaysInMonth(y, m) ==
    IF m = 2 THEN (IF IsLeap(y) THEN 29 ELSE 28)
    ELSE IF m \in {4, 6, 9, 11} THEN 30 ELSE 31

\* datetime(y, m, d, H, M, S): the record, or NoDate where Python raises
\* ValueError (every caller catches it and goes on to its "return None").
MkDate(y, m, d, H, M, S) ==
    IF /\ y \in 1..9999 /\ m \in 1..12 /\ d >= 1 /\ d <= DaysInMonth(y, m)
       /\ H \in 0..23 /\ M \in 0..59 /\ S \in 0..59
    THEN [y |-> y, m |-> m, d |-> d, H |-> H, M |-> M, S |-> S]
    ELSE NoDate

\* datetime.date(): the calendar day.
DateOf(dt) == <<dt.y, dt.m, dt.d>>

\* date < date
DayBefore(a, b) ==
    \/ a[1] < b[1]
    \/ a[1] = b[1] /\ a[2] < b[2]
    \/ a[1] = b[1] /\ a[2] = b[2] /\ a[3] < b[3]

\* self.today = datetime.now() in __init__: read once, then fixed.
Today == [y |-> 2026, m |-> 1, d |-> 9, H |-> 8, M |-> 30, S |-> 0]

\* What a later datetime.now() can return: the crawl may run past midnight.
NowValues ==
    { [y |-> 2026, m |-> 1, d |-> 9, H |-> 8, M |-> 31, S |-> 5],
      [y |-> 2026, m |-> 1, d |-> 10, H |-> 0, M |-> 2, S |-> 0] }

\* The value of a decimal digit character.
DigitValOf == [c \in DigitSet |-> (CHOOSE i \in 1..Len(Digits) : Digits[i] = c) - 1]
DigitVal(c) == DigitValOf[c]

AllDigits(s) == Len(s) > 0 /\ \A i \in 1..Len(s) : IsDigit(s[i])

\* The value of a digit string.
RECURSIVE DigitsVal(_)
DigitsVal(s) ==
    IF Len(s) = 0 THEN 0
    ELSE 10 * DigitsVal(SubSeq(s, 1, Len(s) - 1)) + DigitVal(s[Len(s)])

\* int(s): the value, or -1 where Python raises ValueError.  The text is
\* stripped first, as int() does.
ParseInt(s) == IF AllDigits(Strip(s)) THEN DigitsVal(Strip(s)) ELSE -1

\* s.replace(ch, '')
RECURSIVE RemoveChar(_, _)
RemoveChar(s, ch) ==
    IF Len(s) = 0 THEN Empty
    ELSE (IF s[1] = ch THEN Empty ELSE <<s[1]>>) \o RemoveChar(Tail(s), ch)

\* s.split(ch)
RECURSIVE Split(_, _)
Split(s, ch) ==
    IF \A i \in 1..Len(s) : s[i] # ch THEN <<s>>
    ELSE LET k == CHOOSE i \in 1..Len(s) :
                     s[i] = ch /\ \A j \in 1..(i - 1) : s[j] # ch
         IN  <<SubSeq(s, 1, k - 1)>> \o Split(SubSeq(s, k + 1, Len(s)), ch)

-----------------------------------------------------------------------------
(* ItemDateExtractor: extract_item_date.  new_date is the item's .new_date *)
(* block: day and month_year are the texts of its .day and .month_year     *)
(* children (None where the child or the whole block is missing).          *)

\* month_year.strip().replace('.', '').strip()
CleanMonthYear(month_year) == Strip(RemoveChar(Strip(month_year), "."))

\* The two-digit year made a full year.
FullYear(year_short) ==
    IF year_short >= 50 THEN 1900 + year_short ELSE 2000 + year_short

\* The try block once month, year_short and day_int are read (-1: int() raised).
ItemDateOf(month, year_short, day_int) ==
    IF month < 0 \/ year_short < 0 \/ day_int < 0 THEN NoDate
    ELSE MkDate(FullYear(year_short), month, day_int, 0, 0, 0)

\* The try block once month_year is split.
ItemDateFrom(day, parts) ==
    IF Len(parts) # 2 THEN NoDate
    ELSE ItemDateOf(ParseInt(parts[1]), ParseInt(parts[2]), ParseInt(Strip(day)))

ExtractItemDate(day, month_year) ==
    IF ~(Truthy(day) /\ Truthy(month_year)) THEN NoDate
    ELSE ItemDateFrom(day, Split(CleanMonthYear(month_year), "."))

-----------------------------------------------------------------------------
(* DateNormalizer: parse_date_full_format, parse_date_string and the       *)
(* regular expressions and strptime templates they use.                    *)

ru_months ==
    <<<<"ya","n","v","a","r","ya">>,
      <<"f","e","v","r","a","l","ya">>,
      <<"m","a","r","t","a">>,
      <<"a","p","r","e","l","ya">>,
      <<"m","a","ya">>,
      <<"i","yu","n","ya">>,
      <<"i","yu","l","ya">>,
      <<"a","v","g","u","s","t","a">>,
      <<"s","e","n","t","ya","b","r","ya">>,
      <<"o","k","t","ya","b","r","ya">>,
      <<"n","o","ya","b","r","ya">>,
      <<"d","e","k","a","b","r","ya">>>>

\* month in ru_months, ru_months[month] (0: not a key)
MonthNumber(word) ==
    IF \E k \in 1..12 : ru_months[k] = word
    THEN CHOOSE k \in 1..12 : ru_months[k] = word
    ELSE 0

At(s, i) == IF i >= 1 /\ i <= Len(s) THEN s[i] ELSE "<end>"

\* The position after the longest run of characters of a class starting at i.
RECURSIVE SpaceRunEnd(_, _)
SpaceRunEnd(s, i) == IF IsSpace(At(s, i)) THEN SpaceRunEnd(s, i + 1) ELSE i
RECURSIVE LowerRunEnd(_, _)
LowerRunEnd(s, i) == IF IsLower(At(s, i)) THEN LowerRunEnd(s, i + 1) ELSE i

\* re.sub(r'\s+', ' ', s): every run of whitespace becomes one blank.
RECURSIVE CollapseSpaces(_)
CollapseSpaces(s) ==
    IF Len(s) = 0 THEN Empty
    ELSE IF IsSpace(s[1])
         THEN <<" ">> \o CollapseSpaces(SubSeq(s, SpaceRunEnd(s, 1), Len(s)))
         ELSE <<s[1]>> \o CollapseSpaces(Tail(s))

NoMatch == [ok |-> FALSE, day |-> 0, month |-> Empty, year |-> 0,
            timed |-> FALSE, hour |-> 0, minute |-> 0]

SpaceChars == {" ", "NL", "TAB"}

\* (\d{1,2}) followed by what must come next (whitespace, or ":"): the number
\* of digits the group takes at i, 0 when it cannot match there.
Digits12(s, i, next) ==
    IF IsDigit(At(s, i)) /\ IsDigit(At(s, i + 1)) /\ At(s, i + 2) \in next THEN 2
    ELSE IF IsDigit(At(s, i)) /\ At(s, i + 1) \in next THEN 1
    ELSE 0

NoTime == [timed |-> FALSE, hour |-> 0, minute |-> 0]

\* The optional group (?:,\s+(\d{1,2}):(\d{2}))? at position y1, its
\* whitespace ending at t0 and its hour taking nh digits.
LongTimeOf(s, y1, t0, nh) ==
    IF /\ At(s, y1) = ","
       /\ t0 > y1 + 1
       /\ nh > 0
       /\ IsDigit(At(s, t0 + nh + 1)) /\ IsDigit(At(s, t0 + nh + 2))
    THEN [timed |-> TRUE,
          hour |-> DigitsVal(SubSeq(s, t0, t0 + nh - 1)),
          minute |-> DigitsVal(SubSeq(s, t0 + nh + 1, t0 + nh + 2))]
    ELSE NoTime
LongTimeFrom(s, y1, t0) == LongTimeOf(s, y1, t0, Digits12(s, t0, {":"}))
LongTimeAt(s, y1, with_time) ==
    IF with_time THEN LongTimeFrom(s, y1, SpaceRunEnd(s, y1 + 1)) ELSE NoTime

\* The pattern (\d{1,2})\s+([а-яё]+)\s+(\d{4})(?:,\s+(\d{1,2}):(\d{2}))?
\* tried at position i; with_time says whether the optional group is part of
\* the pattern (parse_date_full_format) or not (parse_date_string).  The
\* day takes nd digits, the month name runs from w0 to w1, the year starts
\* at y0.
LongMatchOf(s, i, nd, w0, w1, y0, time) ==
    IF /\ nd > 0
       /\ w1 > w0
       /\ y0 > w1
       /\ \A k \in y0..(y0 + 3) : IsDigit(At(s, k))
    THEN [ok |-> TRUE,
          day |-> DigitsVal(SubSeq(s, i, i + nd - 1)),
          month |-> SubSeq(s, w0, w1 - 1),
          year |-> DigitsVal(SubSeq(s, y0, y0 + 3)),
          timed |-> time.timed,
          hour |-> time.hour,
          minute |-> time.minute]
    ELSE NoMatch
LongMatchYear(s, i, nd, w0, w1, y0, with_time) ==
    LongMatchOf(s, i, nd, w0, w1, y0, LongTimeAt(s, y0 + 4, with_time))
LongMatchWordEnd(s, i, nd, w0, w1, with_time) ==
    LongMatchYear(s, i, nd, w0, w1, SpaceRunEnd(s, w1), with_time)
LongMatchWord(s, i, nd, w0, with_time) ==
    LongMatchWordEnd(s, i, nd, w0, LowerRunEnd(s, w0), with_time)
LongMatchDay(s, i, nd, with_time) ==
    LongMatchWord(s, i, nd, SpaceRunEnd(s, i + nd), with_time)
MatchLongAt(s, i, with_time) ==
    LongMatchDay(s, i, Digits12(s, i, SpaceChars), with_time)

\* The first of two matches that is one.
FirstMatch(m, rest) == IF m.ok THEN m ELSE rest

\* re.search: the match at the leftmost position where the pattern matches.
RECURSIVE SearchLongFrom(_, _, _)
SearchLongFrom(s, i, with_time) ==
    IF i > Len(s) THEN NoMatch
    ELSE FirstMatch(MatchLongAt(s, i, with_time), SearchLongFrom(s, i + 1, with_time))
SearchLong(s, with_time) == SearchLongFrom(s, 1, with_time)

\* datetime(...) from a match and the number of its month (0: not a month).
LongDate(match, month) ==
    IF ~match.ok \/ month = 0 THEN NoDate
    ELSE IF match.timed
    THEN MkDate(match.year, month, match.day, match.hour, match.minute, 0)
    ELSE MkDate(match.year, month, match.day, 0, 0, 0)
LongDateOf(match) ==
    LongDate(match, IF match.ok THEN MonthNumber(match.month) ELSE 0)

ParseDateFullFormat(date_string) ==
    LongDateOf(SearchLong(Lower(Strip(CollapseSpaces(date_string))), TRUE))

\* parse_date_string's date_formats, in order.  A template is a sequence of
\* directives ("%Y", "%m", ...) and literal characters.
date_formats ==
    << <<"%Y", "-", "%m", "-", "%d", "LT", "%H", ":", "%M", ":", "%S">>,
       <<"%Y", "-", "%m", "-", "%d", " ", "%H", ":", "%M", ":", "%S">>,
       <<"%d", ".", "%m", ".", "%Y", " ", "%H", ":", "%M">>,
       <<"%d", ".", "%m", ".", "%Y">>,
       <<"%d", " ", "%m", " ", "%Y">> >>

NoFields == [ok |-> FALSE, Y |-> 1900, m |-> 1, d |-> 1, H |-> 0, M |-> 0, S |-> 0]
\* strptime's defaults for the fields a template does not set.
InitFields == [NoFields EXCEPT !.ok = TRUE]

\* The values strptime's regular expression takes for a two-digit and for a
\* one-digit spelling of a directive (%d: 3[01]|[12]\d|0[1-9]|[1-9], ...).
\* The " [1-9]" spelling of %d cannot occur: the text is stripped and every
\* template puts %d first or after "-".
TwoDigitOK(f, v) ==
    CASE f = "%d" -> v \in 1..31
      [] f = "%m" -> v \in 1..12
      [] f = "%H" -> v \in 0..23
      [] f = "%M" -> v \in 0..59
      [] f = "%S" -> v \in 0..61
OneDigitOK(f, v) == IF f \in {"%d", "%m"} THEN v \in 1..9 ELSE v \in 0..9

SetField(acc, f, v) ==
    CASE f = "%Y" -> [acc EXCEPT !.Y = v]
      [] f = "%d" -> [acc EXCEPT !.d = v]
      [] f = "%m" -> [acc EXCEPT !.m = v]
      [] f = "%H" -> [acc EXCEPT !.H = v]
      [] f = "%M" -> [acc EXCEPT !.M = v]
      [] f = "%S" -> [acc EXCEPT !.S = v]

\* The template's regular expression matched against s from position i on,
\* template item k on; the whole of s must be used up.
RECURSIVE MatchFmt(_, _, _, _, _)
MatchFmt(s, i, fmt, k, acc) ==
    IF k > Len(fmt) THEN (IF i = Len(s) + 1 THEN acc ELSE NoFields)
    ELSE
      LET f == fmt[k]
      IN  IF f = "%Y"
          THEN IF \A j \in i..(i + 3) : IsDigit(At(s, j))
               THEN MatchFmt(s, i + 4, fmt, k + 1,
                             SetField(acc, f, DigitsVal(SubSeq(s, i, i + 3))))
               ELSE NoFields
          ELSE IF f \in {"%d", "%m", "%H", "%M", "%S"}
          THEN FirstMatch(
                 IF /\ IsDigit(At(s, i)) /\ IsDigit(At(s, i + 1))
                    /\ TwoDigitOK(f, DigitsVal(SubSeq(s, i, i + 1)))
                 THEN MatchFmt(s, i + 2, fmt, k + 1,
                               SetField(acc, f, DigitsVal(SubSeq(s, i, i + 1))))
                 ELSE NoFields,
                 IF IsDigit(At(s, i)) /\ OneDigitOK(f, DigitVal(At(s, i)))
                 THEN MatchFmt(s, i + 1, fmt, k + 1, SetField(acc, f, DigitVal(At(s, i))))
                 ELSE NoFields)
          ELSE IF f = " "
          THEN IF IsSpace(At(s, i))
               THEN MatchFmt(s, SpaceRunEnd(s, i), fmt, k + 1, acc)
               ELSE NoFields
          ELSE IF LowerChar(At(s, i)) = LowerChar(f)
               THEN MatchFmt(s, i + 1, fmt, k + 1, acc)
               ELSE NoFields

\* datetime(...) from the fields strptime has read.
DateOfFields(r) == IF r.ok THEN MkDate(r.Y, r.m, r.d, r.H, r.M, r.S) ELSE NoDate

\* datetime.strptime(s, fmt): the date-time, or NoDate where it raises ValueError.
Strptime(s, fmt) == DateOfFields(MatchFmt(s, 1, fmt, 1, InitFields))

\* The first of two results that is a date.
FirstDate(parsed, rest) == IF parsed # NoDate THEN parsed ELSE rest

\* The loop over date_formats from template k on: the first that parses wins.
RECURSIVE TryFormats(_, _)
TryFormats(s, k) ==
    IF k > Len(date_formats) THEN NoDate
    ELSE FirstDate(Strptime(s, date_formats[k]), TryFormats(s, k + 1))

ParseDateString(date_string) ==
    IF ~Truthy(date_string) THEN NoDate
    ELSE FirstDate(TryFormats(Strip(date_string), 1),
                   LongDateOf(SearchLong(Lower(Strip(date_string)), FALSE)))

-----------------------------------------------------------------------------
(* extract_article_date.  An article page carries date_full, the text of   *)
(* its .date_full block, and date_others, what each of the seven fallback  *)
(* selectors finds, in date_selectors order (None: nothing found).         *)

\* The number of entries of date_selectors.
NumDateSelectors == 7

\* The loop over date_selectors from selector k on.
RECURSIVE TrySelectors(_, _)
TrySelectors(others, k) ==
    IF k > Len(others) THEN NoDate
    ELSE FirstDate(IF Truthy(others[k]) THEN ParseDateString(Strip(others[k]))
                   ELSE NoDate,
                   TrySelectors(others, k + 1))

\* The .date_full text parsed, NoDate without the block.
DateFullParsed(date_full) ==
    IF Truthy(date_full) THEN ParseDateFullFormat(Strip(date_full)) ELSE NoDate

\* A faulty variant of extract_article_date: no fallback to datetime.now().
ExtractArticleDate_NoDefault(page, now) ==
    FirstDate(DateFullParsed(page.date_full), TrySelectors(page.date_others, 1))

ExtractArticleDate(page, now) ==
    FirstDate(DateFullParsed(page.date_full),
              FirstDate(TrySelectors(page.date_others, 1), now))

\* check_is_today
CheckIsToday(pub_date) ==
    IF pub_date = NoDate THEN FALSE ELSE DateOf(pub_date) = DateOf(Today)

-----------------------------------------------------------------------------
(* FieldExtractor: FIO_PATTERN and extract_fio.                            *)

\* [А-ЯЁ][а-яё]+ at position i: the position after it, 0 when it does not match.
CapWordEnd(s, i) ==
    IF IsUpper(At(s, i)) /\ IsLower(At(s, i + 1)) THEN LowerRunEnd(s, i + 1) ELSE 0

\* \s+[А-ЯЁ][а-яё]+ at position i: the position after it, 0 when it does not match.
NextCapWordEnd(s, i) ==
    IF IsSpace(At(s, i)) THEN CapWordEnd(s, SpaceRunEnd(s, i)) ELSE 0

\* FIO_PATTERN at position i: the position after the match (the greedy {1,2}
\* takes a third word when there is one), 0 when it does not match.  e2 is
\* the position after the second word.
ThirdWordEnd(s, e2) ==
    IF NextCapWordEnd(s, e2) > 0 THEN NextCapWordEnd(s, e2) ELSE e2
MatchFioAt(s, i) ==
    IF CapWordEnd(s, i) > 0 THEN ThirdWordEnd(s, NextCapWordEnd(s, CapWordEnd(s, i)))
    ELSE 0

\* The least position whose flag is set, 0 when there is none.
FirstPos(flags) ==
    IF \E i \in DOMAIN flags : flags[i]
    THEN CHOOSE i \in DOMAIN flags : flags[i] /\ \A j \in 1..(i - 1) : ~flags[j]
    ELSE 0

\* The leftmost position from i on where FIO_PATTERN matches, 0 without one.
NextFioPos(s, i) ==
    FirstPos([k \in 1..Len(s) |-> k >= i /\ MatchFioAt(s, k) > 0])

\* re.findall(FIO_PATTERN, s) from position i on: the matches, left to right,
\* none overlapping another.  FioFrom takes the match at position k (0: there
\* is none left) and goes on after it.
RECURSIVE FindAllFio(_, _)
FioFrom(s, k) ==
    IF k = 0 THEN <<>>
    ELSE <<SubSeq(s, k, MatchFioAt(s, k) - 1)>> \o FindAllFio(s, MatchFioAt(s, k))
FindAllFio(s, i) == FioFrom(s, NextFioPos(s, i))

\* len(s.split()): the number of whitespace-separated words.
RECURSIVE WordCount(_)
WordCount(s) ==
    LET t == LStrip(s)
    IN  IF Len(t) = 0 THEN 0
        ELSE IF \A i \in 1..Len(t) : ~IsSpace(t[i]) THEN 1
        ELSE 1 + WordCount(SubSeq(t,
                                  CHOOSE i \in 1..Len(t) :
                                      IsSpace(t[i]) /\ \A j \in 1..(i - 1) : ~IsSpace(t[j]),
                                  Len(t)))

excluded_words ==
    <<<<"P","r","e","z","i","d","e","n","t">>,
      <<"R","e","s","p","u","b","l","i","k","i">>,
      <<"B","e","l","a","r","u","s","soft">>,
      <<"K","o","m","i","t","e","t">>,
      <<"S","o","v","e","t">>,
      <<"M","i","n","i","s","t","e","r","s","t","v","o">>,
      <<"G","o","s","u","d","a","r","s","t","v","e","n","n","y","j">>,
      <<"N","a","c","i","o","n","a","l","soft","n","y","j">>,
      <<"A","d","m","i","n","i","s","t","r","a","c","i","ya">>>>

\* "Не удалось определить ФИО"
FioSentinel ==
    <<"N","e"," ","u","d","a","l","o","s","soft"," ","o","p","r","e","d","e","l","i","t","soft"," ","F","I","O">>

\* A faulty variant of extract_fio's filter: a candidate is accepted whatever it contains.
FioAccepted_NoFilter(match) == WordCount(match) \in 2..3

\* extract_fio's test of one match: 2-3 words and no excluded word in it.
FioAccepted(match) ==
    /\ WordCount(match) \in 2..3
    /\ ~HasAny(excluded_words, match)

\* The loop over fio_matches from match k on.
RECURSIVE FirstAccepted(_, _)
FirstAccepted(matches, k) ==
    IF k > Len(matches) THEN FioSentinel
    ELSE IF FioAccepted(matches[k]) THEN Strip(matches[k])
    ELSE FirstAccepted(matches, k + 1)

ExtractFio(full_text, title) == FirstAccepted(FindAllFio(full_text, 1), 1)

-----------------------------------------------------------------------------
(* FieldExtractor: POSITION_PATTERNS and extract_position.  The en dash    *)
(* and the em dash are the symbols "ndash" and "mdash".                    *)

\* The literal text of the first three POSITION_PATTERNS, each followed in the
\* pattern by \s+([^.]+).
position_phrases ==
    <<<<"n","a"," ","d","o","l","zh","n","o","s","t","soft">>,
      <<"n","a","z","n","a","ch","e","n">>,
      <<"n","a","z","n","a","ch","e","n","a">>>>

\* The dash of the fourth and of the fifth pattern.
position_dashes == <<"ndash", "mdash">>

\* The title nouns of the dash patterns.
title_nouns ==
    <<<<"p","r","e","d","s","e","d","a","t","e","l","soft">>,
      <<"n","a","ch","a","l","soft","n","i","k">>,
      <<"m","i","n","i","s","t","r">>,
      <<"r","u","k","o","v","o","d","i","t","e","l","soft">>,
      <<"d","i","r","e","k","t","o","r">>,
      <<"z","a","m","e","s","t","i","t","e","l","soft">>,
      <<"s","o","v","e","t","n","i","k">>,
      <<"p","o","m","o","sch","n","i","k">>,
      <<"p","r","e","d","s","t","a","v","i","t","e","l","soft">>>>

position_keywords ==
    <<<<"p","r","e","d","s","e","d","a","t","e","l","soft">>,
      <<"m","i","n","i","s","t","r">>,
      <<"n","a","ch","a","l","soft","n","i","k">>,
      <<"d","i","r","e","k","t","o","r">>,
      <<"r","u","k","o","v","o","d","i","t","e","l","soft">>,
      <<"z","a","m","e","s","t","i","t","e","l","soft">>,
      <<"s","o","v","e","t","n","i","k">>,
      <<"p","o","m","o","sch","n","i","k">>,
      <<"p","r","e","d","s","t","a","v","i","t","e","l","soft">>,
      <<"p","o","s","o","l">>,
      <<"s","u","d","soft","ya">>,
      <<"p","r","o","k","u","r","o","r">>>>

\* "Должность не указана"
PositionSentinel ==
    <<"D","o","l","zh","n","o","s","t","soft"," ","n","e"," ","u","k","a","z","a","n","a">>

\* The minimum length of a position title (len(position) > 5).
MinPositionLen == 5

IsNonDot(c) == c # "." /\ c # "<end>"
NonDotRunEnd(s, i) ==
    IF ~IsNonDot(At(s, i)) THEN i
    ELSE CHOOSE k \in (i + 1)..(Len(s) + 1) :
             ~IsNonDot(At(s, k)) /\ \A j \in i..(k - 1) : IsNonDot(At(s, j))
\* The start of the run of non-dot characters that position i lies in.
NonDotRunStart(s, i) ==
    IF ~IsNonDot(At(s, i - 1)) THEN i
    ELSE CHOOSE k \in 1..(i - 1) :
             ~IsNonDot(At(s, k - 1)) /\ \A j \in k..(i - 1) : IsNonDot(At(s, j))

\* A lower-case literal matched at position i under re.IGNORECASE.
PhraseAt(s, i, phrase) ==
    \A j \in 1..Len(phrase) : LowerChar(At(s, i + j - 1)) = phrase[j]

NoCapture == [ok |-> FALSE, text |-> Empty]

\* phrase\s+([^.]+) at position i.  \s+ takes the whole run of whitespace
\* unless nothing but a dot or the end follows: then it gives one character
\* back, which the group takes.
PhraseMatchAt(s, i, phrase) ==
    LET w0 == i + Len(phrase)
        w1 == SpaceRunEnd(s, w0)
    IN  /\ PhraseAt(s, i, phrase)
        /\ w1 > w0
        /\ (IsNonDot(At(s, w1)) \/ w1 - w0 >= 2)

\* The group of phrase\s+([^.]+) matched at position i, its whitespace
\* ending at w1.
PhraseCaptureAt(s, i, w1) ==
    IF i = 0 THEN NoCapture
    ELSE IF IsNonDot(At(s, w1))
    THEN [ok |-> TRUE, text |-> SubSeq(s, w1, NonDotRunEnd(s, w1) - 1)]
    ELSE [ok |-> TRUE, text |-> <<s[w1 - 1]>>]
PhraseCaptureFrom(s, phrase, i) ==
    PhraseCaptureAt(s, i, SpaceRunEnd(s, i + Len(phrase)))

\* re.findall(pattern, s, re.IGNORECASE)[0] for one of the first three patterns.
PhraseCapture(s, phrase) ==
    PhraseCaptureFrom(s, phrase,
                      FirstPos([k \in 1..Len(s) |-> PhraseMatchAt(s, k, phrase)]))

\* One of the title nouns, then at least one non-dot character, at position i.
NounAt(s, i) ==
    \E n \in 1..Len(title_nouns) :
        PhraseAt(s, i, title_nouns[n]) /\ IsNonDot(At(s, i + Len(title_nouns[n])))

\* In dash\s+([^.]+?\s+(?:noun|...)[^.]+) with the group starting at g: p is
\* where the lazy [^.]+? may stop, whitespace and then a title noun following.
DashStopAt(s, g, p) ==
    /\ p > g
    /\ \A k \in g..(p - 1) : IsNonDot(At(s, k))
    /\ IsSpace(At(s, p))
    /\ NounAt(s, SpaceRunEnd(s, p))

DashMatchAt(s, i, dash) ==
    /\ At(s, i) = dash
    /\ IsSpace(At(s, i + 1))
    /\ \E p \in 1..Len(s) : DashStopAt(s, SpaceRunEnd(s, i + 1), p)

\* The group of a dash pattern matched at position i.
DashCaptureFrom(s, i) ==
    IF i = 0 THEN NoCapture
    ELSE [ok |-> TRUE,
          text |-> SubSeq(s, SpaceRunEnd(s, i + 1),
                          NonDotRunEnd(s, SpaceRunEnd(s, i + 1)) - 1)]

\* re.findall(pattern, s, re.IGNORECASE)[0] for a dash pattern: the group runs
\* on to the next dot.
DashCapture(s, dash) ==
    DashCaptureFrom(s, FirstPos([k \in 1..Len(s) |-> DashMatchAt(s, k, dash)]))

\* position.rstrip('.,;:')
RECURSIVE RStripPunct(_)
RStripPunct(s) ==
    IF Len(s) > 0 /\ s[Len(s)] \in {".", ",", ";", ":"}
    THEN RStripPunct(SubSeq(s, 1, Len(s) - 1))
    ELSE s

\* The clean-up of a pattern's first match.
CleanPosition(text) == RStripPunct(CollapseSpaces(Strip(text)))

PatternCapture(s, k) ==
    IF k <= Len(position_phrases) THEN PhraseCapture(s, position_phrases[k])
    ELSE DashCapture(s, position_dashes[k - Len(position_phrases)])

\* The cleaned-up first match of a pattern, Empty without a match.
CapturedPosition(c) == IF c.ok THEN CleanPosition(c.text) ELSE Empty

\* if len(position) > 5: return position
LongEnough(position, rest) ==
    IF Len(position) > MinPositionLen THEN position ELSE rest

\* The loop over POSITION_PATTERNS from pattern k on: Empty when none yields a
\* position longer than the minimum.
RECURSIVE PositionByPattern(_, _)
PositionByPattern(s, k) ==
    IF k > Len(position_phrases) + Len(position_dashes) THEN Empty
    ELSE LongEnough(CapturedPosition(PatternCapture(s, k)), PositionByPattern(s, k + 1))

\* The group of ([^.]*keyword[^.]*) for the keyword found at position i: the
\* whole run of non-dot characters around it.
KeywordCaptureFrom(s, i) ==
    IF i = 0 THEN NoCapture
    ELSE [ok |-> TRUE,
          text |-> SubSeq(s, NonDotRunStart(s, i), NonDotRunEnd(s, i) - 1)]

\* ([^.]*keyword[^.]*) under re.IGNORECASE, first match.
KeywordCapture(s, kw) ==
    KeywordCaptureFrom(s, FirstPos([k \in 1..Len(s) |-> PhraseAt(s, k, kw)]))

\* if matches: return matches[0].strip()
FirstCaptured(c, rest) == IF c.ok THEN Strip(c.text) ELSE rest

\* The loop over position_keywords from keyword k on.
RECURSIVE PositionByKeyword(_, _)
PositionByKeyword(s, k) ==
    IF k > Len(position_keywords) THEN PositionSentinel
    ELSE FirstCaptured(KeywordCapture(s, position_keywords[k]),
                       PositionByKeyword(s, k + 1))

\* The first of two texts that is not empty.
FirstNonEmpty(text, rest) == IF text # Empty THEN text ELSE rest

ExtractPosition(full_text, title) ==
    FirstNonEmpty(PositionByPattern(full_text, 1), PositionByKeyword(full_text, 1))

-----------------------------------------------------------------------------
(* NotificationComposer: create_notification.                              *)

\* "Новое назначение Президента Республики Беларусь"
NotificationHeader ==
    <<"N","o","v","o","e"," ","n","a","z","n","a","ch","e","n","i","e"," ","P","r",
      "e","z","i","d","e","n","t","a"," ","R","e","s","p","u","b","l","i","k","i"," ",
      "B","e","l","a","r","u","s","soft">>

\* "Опубликовано новое кадровое решение: "
NotificationPrefix ==
    <<"O","p","u","b","l","i","k","o","v","a","n","o"," ","n","o","v","o","e"," ","k",
      "a","d","r","o","v","o","e"," ","r","e","sh","e","n","i","e",":"," ">>

\* ", назначен(а) на должность "
NotificationMiddle ==
    <<","," ","n","a","z","n","a","ch","e","n","(","a",")"," ","n","a"," ","d","o",
      "l","zh","n","o","s","t","soft"," ">>

\* ". Необходимо подготовить поздравление."
NotificationSuffix ==
    <<"."," ","N","e","o","b","h","o","d","i","m","o"," ","p","o","d","g","o","t","o",
      "v","i","t","soft"," ","p","o","z","d","r","a","v","l","e","n","i","e",".">>


\* A faulty variant of create_notification: the source is not the article's URL.
CreateNotification_NoSource(fio, position, url) ==
    [header |-> NotificationHeader,
     text |-> NotificationPrefix \o fio \o NotificationMiddle \o position
              \o NotificationSuffix,
     source |-> None]

CreateNotification(fio, position, url) ==
    [header |-> NotificationHeader,
     text |-> NotificationPrefix \o fio \o NotificationMiddle \o position
              \o NotificationSuffix,
     source |-> url]

-----------------------------------------------------------------------------
(* extract_article_content.  An article page carries has_article_body and  *)
(* article_body (the text nodes under div[itemprop="articleBody"]),        *)
(* content_selectors (for each fallback selector that matches, in          *)
(* content_selectors order, its p::text paragraphs) and paragraphs (every  *)
(* p::text of the page).                                                   *)

\* [text.strip() for text in all_text if text.strip()]
RECURSIVE StripNonBlank(_)
StripNonBlank(nodes) ==
    IF Len(nodes) = 0 THEN <<>>
    ELSE (IF Strip(nodes[1]) # Empty THEN <<Strip(nodes[1])>> ELSE <<>>)
         \o StripNonBlank(Tail(nodes))

\* The loop over content_selectors from selector k on: Empty-handed (None)
\* when no matching selector has paragraphs.
RECURSIVE TryContentSelectors(_, _)
TryContentSelectors(found, k) ==
    IF k > Len(found) THEN None
    ELSE IF Len(found[k]) > 0 THEN Strip(JoinSpace(found[k]))
    ELSE TryContentSelectors(found, k + 1)

\* The first of two texts that is one.
FirstText(text, rest) == IF text # None THEN text ELSE rest

ExtractArticleContent(page) ==
    IF page.has_article_body /\ Len(page.article_body) > 0
    THEN JoinSpace(StripNonBlank(page.article_body))
    ELSE FirstText(TryContentSelectors(page.content_selectors, 1),
                   IF Len(page.paragraphs) > 0 THEN Strip(JoinSpace(page.paragraphs))
                   ELSE Empty)

-----------------------------------------------------------------------------
(* URLs are sequences of tokens: the site root, "/", "//", "&amp;", "&"    *)
(* and path pieces.  clean_url, and urljoin as the spider uses it.         *)

\* 'https://belta.by'
SiteRoot == <<"https://belta.by">>
\* start_requests' start_url
StartUrl == <<"https://belta.by", "/", "all_news/">>

\* url.startswith('http')
IsAbsolute(url) == Len(url) > 0 /\ url[1] \in {"https://belta.by", "http://belta.by"}

\* s.replace('&amp;', '&')
UnescapeAmp(url) == [i \in 1..Len(url) |-> IF url[i] = "&amp;" THEN "&" ELSE url[i]]

\* urljoin('https://belta.by', path)
UrlJoin(path) ==
    IF Len(path) = 0 THEN SiteRoot
    ELSE IF IsAbsolute(path) THEN path
    ELSE IF path[1] = "//" THEN <<"https:">> \o path
    ELSE IF path[1] = "/" THEN SiteRoot \o path
    ELSE SiteRoot \o <<"/">> \o path

CleanUrl(url) ==
    IF ~Truthy(url) THEN None
    ELSE LET u == UnescapeAmp(url)
         IN  IF u[1] = "//" THEN <<"https:">> \o u
             ELSE IF u[1] = "/" THEN UrlJoin(u)
             ELSE IF ~IsAbsolute(u) THEN UrlJoin(u)
             ELSE u

-----------------------------------------------------------------------------
(* Requests.  One record shape serves both callbacks; the fields a callback *)
(* does not read hold None, NoDate or 0.                                   *)

ListingRequest(url, page) ==
    [kind |-> "list", url |-> url, page |-> page, continue_loading |-> TRUE,
     title |-> None, snippet |-> None, item_date |-> NoDate]

ArticleRequest(url, title, snippet, item_date) ==
    [kind |-> "article", url |-> url, page |-> 0, continue_loading |-> FALSE,
     title |-> title, snippet |-> snippet, item_date |-> item_date]

\* No request: the loop body went on to the next item without a yield.
NoRequest ==
    [kind |-> "none", url |-> None, page |-> 0, continue_loading |-> FALSE,
     title |-> None, snippet |-> None, item_date |-> NoDate]

-----------------------------------------------------------------------------
(* parse_news_list.  A listing item carries the texts of its .new_date      *)
(* block (None where the block or the child is missing), the text nodes of *)
(* its .lenta_item_title span, its first a[href] and the text nodes of its *)
(* .lenta_textsmall span.  A listing page is its .lenta_item items and the *)
(* onclick attributes of its div.load_more elements.                       *)

\* title_span.css('::text').get(), else the stripped join of all text nodes.
ItemTitle(item) ==
    LET first == IF Len(item.title_nodes) > 0 THEN item.title_nodes[1] ELSE None
    IN  IF Truthy(first) THEN first ELSE Strip(JoinSpace(item.title_nodes))

\* ' '.join(snippet_span.css('::text').getall()).strip(), "" without a span.
ItemSnippet(item) == Strip(JoinSpace(item.snippet_nodes))

\* item_date and item_date.date() < self.today.date()
IsPreviousDay(item_date) ==
    item_date # NoDate /\ DayBefore(DateOf(item_date), DateOf(Today))

\* A faulty variant of the loop body: a request for every item with a title
\* and a link, whatever classify says.
ItemRequestOf_NoFilter(item, title, snippet, item_date) ==
    IF ~Truthy(title) \/ ~Truthy(item.link) THEN NoRequest
    ELSE ArticleRequest(CleanUrl(item.link), title, snippet, item_date)

\* The end of the loop body, title and snippet read.
ItemRequestOf(item, title, snippet, item_date) ==
    IF ~Truthy(title) \/ ~Truthy(item.link) THEN NoRequest
    ELSE IF IsPresidentialAppointment(Lower(title \o <<" ">> \o snippet))
    THEN ArticleRequest(CleanUrl(item.link), title, snippet, item_date)
    ELSE NoRequest

\* The loop body past the boundary test: the article request it yields for
\* the item, NoRequest where it goes on without one (no title span, no title,
\* no link, or title and snippet not classified relevant).
ItemRequest(item, item_date) ==
    IF ~item.has_title_span THEN NoRequest
    ELSE ItemRequestOf(item, ItemTitle(item), ItemSnippet(item), item_date)

\* One pass of the for loop, at item k: the boundary test, then the body.
LoopStep(item, k, item_date, rest) ==
    IF IsPreviousDay(item_date)
    THEN [requests |-> <<>>, yielded |-> {}, found_previous_day |-> TRUE, broke_at |-> k]
    ELSE IF ItemRequest(item, item_date) = NoRequest THEN rest
    ELSE [rest EXCEPT !.requests = <<ItemRequest(item, item_date)>> \o @,
                      !.yielded = @ \cup {k}]

\* The for loop over news_items from item k on: the requests it yields, in
\* order, the items that yielded one, and where it broke off (0: nowhere).
RECURSIVE ItemLoop(_, _)
ItemLoop(items, k) ==
    IF k > Len(items)
    THEN [requests |-> <<>>, yielded |-> {}, found_previous_day |-> FALSE, broke_at |-> 0]
    ELSE LoopStep(items[k], k, ExtractItemDate(items[k].day, items[k].month_year),
                  ItemLoop(items, k + 1))

\* re.search(r"get_page\('([^']+)'", onclick): the quoted argument, None when
\* the pattern matches nowhere.
QuoteRunEnd(s, i) ==
    IF \E j \in i..Len(s) : s[j] = "'"
    THEN CHOOSE j \in i..Len(s) : s[j] = "'" /\ \A k \in i..(j - 1) : s[k] # "'"
    ELSE 0
GetPageArgAt(s, i) ==
    /\ At(s, i) = "get_page("
    /\ At(s, i + 1) = "'"
    /\ QuoteRunEnd(s, i + 2) > i + 2
GetPageArgFrom(onclick, i) ==
    IF i = 0 THEN None ELSE SubSeq(onclick, i + 2, QuoteRunEnd(onclick, i + 2) - 1)
GetPageArg(onclick) ==
    GetPageArgFrom(onclick,
                   FirstPos([k \in 1..Len(onclick) |-> GetPageArgAt(onclick, k)]))

\* The path a div.load_more offers: its onclick must hold "get_page(" and
\* match the pattern.
DivPath(onclick) ==
    IF Truthy(onclick) /\ \E i \in 1..Len(onclick) : onclick[i] = "get_page("
    THEN GetPageArg(onclick)
    ELSE None

\* The URL made of a div's path, and what follows for a div without one.
NextUrlOf(next_page_path, rest) ==
    IF next_page_path # None THEN UrlJoin(UnescapeAmp(next_page_path)) ELSE rest

\* A faulty variant of the loop over the divs: only the first div is looked at.
NextPageUrl_FirstDivOnly(divs, k) ==
    IF k > Len(divs) THEN None
    ELSE NextUrlOf(DivPath(divs[k]), None)

\* The loop over load_more_divs from div k on: the URL of the next page from
\* the first div whose onclick holds a get_page('...') call, None without one.
RECURSIVE NextPageUrl(_, _)
NextPageUrl(divs, k) ==
    IF k > Len(divs) THEN None
    ELSE NextUrlOf(DivPath(divs[k]), NextPageUrl(divs, k + 1))

\* A faulty variant of the continuation test: the flag is read without its negation.
ContinueLoading_Inverted(continue_loading, found_previous_day) ==
    continue_loading /\ found_previous_day

\* continue_loading and not found_previous_day
ContinueLoading(continue_loading, found_previous_day) ==
    continue_loading /\ ~found_previous_day

\* meta={'page': page + 1, ...}
NextPageNumber(page) == page + 1

\* The request for the next listing page, if any.
NextRequests(page_no, next_url) ==
    IF next_url # None THEN {ListingRequest(next_url, NextPageNumber(page_no))} ELSE {}

\* What follows the for loop.
ListingYieldFrom(page_no, continue_loading, page, loop) ==
    [loop |-> loop,
     next |-> NextRequests(page_no,
                           IF ContinueLoading(continue_loading, loop.found_previous_day)
                           THEN NextPageUrl(page.load_more, 1)
                           ELSE None)]

\* Everything parse_news_list yields for a response: the article requests of
\* the loop, then at most one request for the next listing page.
ListingYield(page_no, continue_loading, page) ==
    ListingYieldFrom(page_no, continue_loading, page, ItemLoop(page.items, 1))

-----------------------------------------------------------------------------
(* parse_article.                                                          *)

\* The length raw_content is cut to.
RawContentLimit == 1000

\* A faulty variant of the title pass: no date gate.
TitlePass_NoDateGate(is_today, title_relevant) == title_relevant

\* is_today and title_relevant
TitlePass(is_today, title_relevant) == is_today /\ title_relevant

\* What the record holds where no notification was created.
NoNotification == [header |-> None, text |-> None, source |-> None]

\* The dict parse_article yields.  publication_date and scraping_timestamp
\* hold the date-time that the code renders with isoformat(); body_ran says
\* whether article_content was computed.
RecordOf(req, pub_date, body_ran, article_content, relevant, fio, position, notification, stamp) ==
    [title |-> req.title,
     url |-> req.url,
     snippet |-> req.snippet,
     fio |-> fio,
     position |-> position,
     publication_date |-> pub_date,
     is_today |-> CheckIsToday(pub_date),
     relevant |-> relevant,
     notification_header |-> notification.header,
     notification_text |-> notification.text,
     notification_source |-> notification.source,
     scraping_timestamp |-> stamp,
     raw_content |-> SubSeq(article_content, 1,
                            IF Len(article_content) < RawContentLimit
                            THEN Len(article_content) ELSE RawContentLimit),
     body_ran |-> body_ran]

\* "if relevant:" with fio and position extracted, or not.
RecordNotified(req, pub_date, body_ran, article_content, relevant, fio, position, stamp) ==
    RecordOf(req, pub_date, body_ran, article_content, relevant, fio, position,
             IF relevant THEN CreateNotification(fio, position, req.url)
             ELSE NoNotification,
             stamp)

\* "if relevant:" with full_text composed.
RecordExtracted(req, pub_date, body_ran, article_content, relevant, full_text, stamp) ==
    RecordNotified(req, pub_date, body_ran, article_content, relevant,
                   IF relevant THEN ExtractFio(full_text, req.title) ELSE None,
                   IF relevant THEN ExtractPosition(full_text, req.title) ELSE None,
                   stamp)

\* The two passes done: relevant is decided.
RecordDecided(req, pub_date, body_ran, article_content, relevant, stamp) ==
    RecordExtracted(req, pub_date, body_ran, article_content, relevant,
                    req.title \o <<" ">> \o req.snippet \o <<" ">> \o article_content,
                    stamp)

\* The else branch of the title pass, article_content read when it ran.
RecordBody(req, pub_date, body_ran, article_content, stamp) ==
    RecordDecided(req, pub_date, body_ran, article_content,
                  IF body_ran THEN IsPresidentialAppointment(article_content) ELSE TRUE,
                  stamp)

\* The title pass done.
RecordTitle(req, page, pub_date, body_ran, stamp) ==
    RecordBody(req, pub_date, body_ran,
               IF body_ran THEN ExtractArticleContent(page) ELSE Empty,
               stamp)

\* pub_date extracted.
RecordDated(req, page, pub_date, stamp) ==
    RecordTitle(req, page, pub_date,
                ~TitlePass(CheckIsToday(pub_date), IsPresidentialAppointment(req.title)),
                stamp)

\* The record parse_article yields for a response.
ArticleRecord(req, page, now, stamp) ==
    RecordDated(req, page, ExtractArticleDate(page, now), stamp)

-----------------------------------------------------------------------------
(* What the site may answer: the listing pages and article pages the       *)
(* callbacks are handed.                                                   *)

\* "Президент назначил Ивана Петрова председателем комитета"
TitleAppoint ==
    <<"P","r","e","z","i","d","e","n","t"," ","n","a","z","n","a","ch","i","l"," ",
      "I","v","a","n","a"," ","P","e","t","r","o","v","a"," ","p","r","e","d","s","e",
      "d","a","t","e","l","e","m"," ","k","o","m","i","t","e","t","a">>

\* "Погода в Минске"
TitleOther ==
    <<"P","o","g","o","d","a"," ","v"," ","M","i","n","s","k","e">>

\* "Указ о назначении"
SnippetAppoint ==
    <<"U","k","a","z"," ","o"," ","n","a","z","n","a","ch","e","n","i","i">>

\* "Иван Петров назначен председателем комитета. Указ подписан"
BodyAppoint ==
    <<"I","v","a","n"," ","P","e","t","r","o","v"," ","n","a","z","n","a","ch","e",
      "n"," ","p","r","e","d","s","e","d","a","t","e","l","e","m"," ","k","o","m","i",
      "t","e","t","a","."," ","U","k","a","z"," ","p","o","d","p","i","s","a","n">>

\* "Идет дождь"
BodyOther ==
    <<"I","d","e","t"," ","d","o","zh","d","soft">>

\* "09 января 2026, 19:51"
DateFullToday ==
    <<"0","9"," ","ya","n","v","a","r","ya"," ","2","0","2","6",","," ","1","9",":",
      "5","1">>

\* "08 января 2026, 19:51"
DateFullYesterday ==
    <<"0","8"," ","ya","n","v","a","r","ya"," ","2","0","2","6",","," ","1","9",":",
      "5","1">>

\* "вчера"
DateFullBad ==
    <<"v","ch","e","r","a">>

\* "2026-01-09T10:00:00"
IsoToday ==
    <<"2","0","2","6","-","0","1","-","0","9","LT","1","0",":","0","0",":","0","0">>

\* "08.01.2026"
DottedYesterday ==
    <<"0","8",".","0","1",".","2","0","2","6">>

\* The texts of a .new_date block: "09" / "08" and "01.26".
DayToday == <<"0", "9">>
DayYesterday == <<"0", "8">>
MonthYearNow == <<"0", "1", ".", "2", "6">>

\* The href of an item's first link: relative, and absolute.
ItemLink == <<"/", "president/view/naznachenie-1/">>
ItemLinkAbsolute == <<"https://belta.by", "/", "society/view/pogoda-2/">>

Item(day, month_year, has_title_span, title_nodes, link, snippet_nodes) ==
    [day |-> day, month_year |-> month_year, has_title_span |-> has_title_span,
     title_nodes |-> title_nodes, link |-> link, snippet_nodes |-> snippet_nodes]

\* The .lenta_item elements a listing page is made of: today's appointment, a
\* previous day's item that title and snippet make relevant, an undated item
\* that is not relevant, and an item without a link.
ItemChoices ==
    { Item(DayToday, MonthYearNow, TRUE, <<TitleAppoint>>, ItemLink, <<>>),
      Item(DayYesterday, MonthYearNow, TRUE, <<TitleOther>>, ItemLinkAbsolute,
           <<SnippetAppoint>>),
      Item(None, None, TRUE, <<TitleOther>>, ItemLink, <<>>),
      Item(DayToday, MonthYearNow, TRUE, <<TitleAppoint>>, None, <<>>) }

\* onclick="return get_page('/all_news/page/N/?day=08&amp;month=01&amp;year=26/','inner','1');"
GetPageOnclick(n) ==
    <<"return ", "get_page(", "'", "/", "all_news/page/", Digits[n + 1], "/?day=08",
      "&amp;", "month=01", "&amp;", "year=26/", "'", ",", "'", "inner", "'", ",",
      "'", "1", "'", ")", ";">>

\* onclick="return false;"
OtherOnclick == <<"return ", "false", ";">>

\* The onclick attributes of the div.load_more elements a page may carry: no
\* div, a div with another handler, a div without onclick followed by the
\* "load more" button.  The site has finitely many listing pages: the last
\* one offers no further page.
LoadMoreChoices(site_page) ==
    { <<>>, <<OtherOnclick>> }
    \cup (IF site_page < MaxPages
          THEN { <<None, GetPageOnclick(site_page + 1)>> }
          ELSE {})

SeqsUpTo(S, n) == UNION { [1..k -> S] : k \in 0..n }

\* The listing page a URL addresses: 1 for the start URL, N for
\* /all_news/page/N/..., 0 for any other URL.
SitePageOf(url) ==
    IF url = StartUrl THEN 1
    ELSE IF Len(url) >= 4 /\ url[1] = SiteRoot[1] /\ url[2] = "/"
            /\ url[3] = "all_news/page/" /\ IsDigit(url[4])
         THEN DigitVal(url[4])
         ELSE 0

\* The responses the site may give for listing page site_page.
ListingPages(site_page) ==
    [items : SeqsUpTo(ItemChoices, MaxItems), load_more : LoadMoreChoices(site_page)]

NoOthers == [k \in 1..NumDateSelectors |-> None]

\* The date markup of an article page: the .date_full text and what each of
\* the fallback selectors finds.
DateParts ==
    { [date_full |-> DateFullToday, date_others |-> NoOthers],
      [date_full |-> DateFullYesterday, date_others |-> NoOthers],
      [date_full |-> None, date_others |-> [NoOthers EXCEPT ![1] = IsoToday]],
      [date_full |-> DateFullBad, date_others |-> [NoOthers EXCEPT ![2] = DottedYesterday]],
      [date_full |-> None, date_others |-> NoOthers],
      [date_full |-> DateFullBad, date_others |-> [NoOthers EXCEPT ![3] = DateFullBad]] }

\* The body markup of an article page: the text nodes under .js-mediator-article,
\* what each fallback content selector finds, the text nodes of the p elements.
BodyParts ==
    { [has_article_body |-> TRUE, article_body |-> <<BodyAppoint>>,
       content_selectors |-> <<>>, paragraphs |-> <<>>],
      [has_article_body |-> TRUE, article_body |-> <<BodyOther>>,
       content_selectors |-> <<>>, paragraphs |-> <<>>],
      [has_article_body |-> FALSE, article_body |-> <<>>,
       content_selectors |-> <<>>, paragraphs |-> <<>>] }

ArticlePages ==
    { [date_full |-> d.date_full, date_others |-> d.date_others,
       has_article_body |-> b.has_article_body, article_body |-> b.article_body,
       content_selectors |-> b.content_selectors, paragraphs |-> b.paragraphs] :
      d \in DateParts, b \in BodyParts }

\* Two readings of the clock in order: now1 is not later than now2.
ClockOrder(now1, now2) ==
    now1 = now2 \/ DayBefore(DateOf(now1), DateOf(now2))

\* The readings of the clock within one call of parse_article:
\* extract_article_date's default, then the scraping timestamp.
Clocks == { c \in [now : NowValues, stamp : NowValues] : ClockOrder(c.now, c.stamp) }

\* parse_news_list on every response of the site's listing pages, for the
\* requests the spider itself issues (page counter equal to the site's page,
\* continue_loading set).
ListingAnswers ==
    [p \in 1..MaxPages |->
        { [page |-> pg, yield |-> ListingYield(p, TRUE, pg)] : pg \in ListingPages(p) }]

\* What parse_news_list yields for a request and the response to it.
ListingAnswersFor(req) ==
    LET p == SitePageOf(req.url)
    IN  IF p \in 1..MaxPages /\ req.page = p /\ req.continue_loading
        THEN ListingAnswers[p]
        ELSE IF p \in 1..MaxPages
        THEN { [page |-> pg, yield |-> ListingYield(req.page, req.continue_loading, pg)] :
               pg \in ListingPages(p) }
        ELSE {}

\* The article requests parse_news_list issues on this site.
SiteArticleRequests ==
    UNION { { a.yield.loop.requests[k] : k \in 1..Len(a.yield.loop.requests) } :
            a \in UNION { ListingAnswers[p] : p \in 1..MaxPages } }

\* parse_article on every response to each of these requests.
ArticleAnswers ==
    { [request |-> r, page |-> pg, now |-> c.now,
       record |-> ArticleRecord(r, pg, c.now, c.stamp)] :
      r \in SiteArticleRequests, pg \in ArticlePages, c \in Clocks }

ArticleAnswersFor(req) ==
    IF req \in SiteArticleRequests
    THEN { a \in ArticleAnswers : a.request = req }
    ELSE { [request |-> req, page |-> pg, now |-> c.now,
            record |-> ArticleRecord(req, pg, c.now, c.stamp)] :
           pg \in ArticlePages, c \in Clocks }

-----------------------------------------------------------------------------
(* The crawl.  pending holds the requests Scrapy has been handed and has   *)
(* not answered yet; out holds the record the last parse_article yielded;  *)
(* lastList and lastArticle hold the last response handled and what the    *)
(* callback did with it; crawl holds the progress of the listing walk.     *)

NoCrawl == [parsed |-> 0, found_previous_day |-> FALSE, load_more |-> <<>>,
            requested |-> 0]

Init ==
    /\ started = FALSE
    /\ pending = {}
    /\ out = <<>>
    /\ lastList = <<>>
    /\ lastArticle = <<>>
    /\ crawl = NoCrawl
    /\ ufn = "none" /\ uin = <<>> /\ uout = <<>> /\ ustage = "idle"

\* start_requests: the request for the first listing page.
StartRequests ==
    /\ ~started
    /\ ufn = "none"
    /\ started' = TRUE
    /\ pending' = {ListingRequest(StartUrl, 1)}
    /\ crawl' = [crawl EXCEPT !.requested = 1]
    /\ UNCHANGED <<out, lastList, lastArticle, unitVars>>

\* Scrapy answers a pending listing request and calls parse_news_list.
ParseNewsList ==
    \E req \in pending :
      /\ req.kind = "list"
      /\ \E a \in ListingAnswersFor(req) :
           LET y == a.yield
           IN  /\ pending' = (pending \ {req})
                             \cup {y.loop.requests[k] : k \in 1..Len(y.loop.requests)}
                             \cup y.next
               /\ lastList' =
                    <<[page |-> req.page,
                       dates |-> [k \in 1..Len(a.page.items) |->
                                    [day |-> a.page.items[k].day,
                                     month_year |-> a.page.items[k].month_year]],
                       load_more |-> a.page.load_more,
                       yielded |-> y.loop.yielded,
                       broke_at |-> y.loop.broke_at,
                       next_pages |-> {r.page : r \in y.next}]>>
               /\ crawl' = [parsed |-> req.page,
                            found_previous_day |-> y.loop.found_previous_day,
                            load_more |-> a.page.load_more,
                            requested |-> IF y.next # {}
                                          THEN (CHOOSE r \in y.next : TRUE).page
                                          ELSE crawl.requested]
      /\ out' = <<>>
      /\ lastArticle' = <<>>
      /\ UNCHANGED <<started, unitVars>>

\* Scrapy answers a pending article request and calls parse_article.
ParseArticle ==
    \E req \in pending :
      /\ req.kind = "article"
      /\ \E a \in ArticleAnswersFor(req) :
           /\ out' = <<a.record>>
           /\ lastArticle' = <<[request |-> req, page |-> a.page, now |-> a.now]>>
      /\ pending' = pending \ {req}
      /\ lastList' = <<>>
      /\ UNCHANGED <<started, crawl, unitVars>>

Next == StartRequests \/ ParseNewsList \/ ParseArticle

Spec == Init /\ [][Next]_vars

\* Scrapy answers every request it holds: no pending request waits forever.
FairSpec ==
    Spec /\ WF_vars(StartRequests) /\ WF_vars(ParseNewsList) /\ WF_vars(ParseArticle)

-----------------------------------------------------------------------------
(* Single functions of the spider, applied to inputs drawn from bounded     *)
(* sets.  ufn names the function, uin holds its input, uout its result once *)
(* it has been applied; the crawl does not run.                             *)

CrawlIdle ==
    /\ started = FALSE
    /\ pending = {}
    /\ out = <<>>
    /\ lastList = <<>>
    /\ lastArticle = <<>>
    /\ crawl = NoCrawl

\* A number below 100 as two digits, a number below 10000 as four.
TwoDigits(n) == <<Digits[(n \div 10) + 1], Digits[(n % 10) + 1]>>
FourDigits(n) == TwoDigits(n \div 100) \o TwoDigits(n % 100)

\* The two-digit years the .month_year text is given.
ItemDateYears == {0, 26, 49, 50, 72, 99}

\* The texts of a .new_date block for day dd of month mm of year yy:
\* "DD" and "MM.YY".
DayText(dd) == TwoDigits(dd)
MonthYearText(mm, yy) == TwoDigits(mm) \o <<".">> \o TwoDigits(yy)

InitItemDate ==
    /\ CrawlIdle
    /\ ufn = "extract_item_date"
    /\ uin \in [dd : 1..31, mm : 1..12, yy : ItemDateYears]
    /\ uout = <<>>
    /\ ustage = "ready"

\* extract_item_date on an item whose .day and .month_year hold the texts.
ApplyItemDate ==
    /\ ufn = "extract_item_date"
    /\ ustage = "ready"
    /\ uout' = <<ExtractItemDate(DayText(uin.dd), MonthYearText(uin.mm, uin.yy))>>
    /\ ustage' = "done"
    /\ UNCHANGED <<crawlVars, ufn, uin>>

NextItemDate == ApplyItemDate

SpecItemDate == InitItemDate /\ [][NextItemDate]_vars

\* The year the documentation gives a two-digit year.
DocumentedYear(yy) == IF yy >= 50 THEN 1900 + yy ELSE 2000 + yy

\* C3: for every day text DD and month-year text "MM.YY" that form a valid
\* calendar date, extract_item_date returns the date with that day and month
\* and the year 1900+YY for YY in 50..99, 2000+YY for YY in 0..49.
C3_ItemDateByPivot ==
    (/\ ufn = "extract_item_date"
     /\ ustage = "done"
     /\ uin.dd <= DaysInMonth(DocumentedYear(uin.yy), uin.mm))
    => uout[1] = [y |-> DocumentedYear(uin.yy), m |-> uin.mm, d |-> uin.dd,
                  H |-> 0, M |-> 0, S |-> 0]

\* The date the documentation gives the .new_date block of a listing item,
\* NoDate for an item without the block.
DocumentedItemDate(date) ==
    IF date.day = None \/ date.month_year = None THEN NoDate
    ELSE MkDate(DocumentedYear(DigitsVal(SubSeq(date.month_year, 4, 5))),
                DigitsVal(SubSeq(date.month_year, 1, 2)),
                DigitsVal(date.day), 0, 0, 0)

\* The item's date is known and its day is earlier than the reference day.
BeforeReferenceDay(date) ==
    /\ DocumentedItemDate(date) # NoDate
    /\ DayBefore(DateOf(DocumentedItemDate(date)), DateOf(Today))

\* C1: once parse_news_list meets an item on a listing page whose date is
\* known and earlier than the reference day, no later item of the page is
\* issued an article request and no request for the next listing page is
\* issued.
C1_BoundarySticky ==
    lastList # <<>> =>
      \A k \in 1..Len(lastList[1].dates) :
         BeforeReferenceDay(lastList[1].dates[k]) =>
           /\ \A j \in lastList[1].yielded : j <= k
           /\ lastList[1].next_pages = {}

-----------------------------------------------------------------------------
(* Properties of the crawl.                                                 *)

\* keyword occurs in text as a substring, letter case disregarded.
ContainsCI(text, keyword) ==
    \E i \in 0..(Len(text) - Len(keyword)) :
        \A j \in 1..Len(keyword) : LowerChar(text[i + j]) = keyword[j]

HasKeywordCI(keywords, text) ==
    \E k \in 1..Len(keywords) : ContainsCI(text, keywords[k])

\* classify(text): a keyword of the category set and a keyword of the
\* appointment set, each a case-insensitive substring of the text.
Classify(text) ==
    /\ HasKeywordCI(RELEVANT_CATEGORIES, text)
    /\ HasKeywordCI(APPOINTMENT_PATTERNS, text)

\* The title pass of the record parse_article has just yielded.
TitlePassed ==
    /\ DateOf(out[1].publication_date) = DateOf(Today)
    /\ Classify(out[1].title)

\* The body text of the page parse_article has just handled.
BodyText == ExtractArticleContent(lastArticle[1].page)

\* C2: for every article, relevant = (the publication date's calendar day is
\* the reference day and classify(title)) or classify(body text), and the
\* body pass runs exactly when the title pass fails.
C2_TwoStageRelevance ==
    out # <<>> =>
      /\ out[1].relevant = (TitlePassed \/ Classify(BodyText))
      /\ out[1].body_ran = ~TitlePassed

\* An article published the day before the reference day whose title
\* classify accepts: the title pass did not mark it relevant, the body pass
\* ran and decided.
C2_YesterdayTitleRelevant ==
    /\ out # <<>>
    /\ DayBefore(DateOf(out[1].publication_date), DateOf(Today))
    /\ Classify(out[1].title)
    /\ out[1].body_ran
    /\ ~Classify(BodyText)
    /\ ~out[1].relevant

\* The page carries a continue affordance: a div.load_more whose onclick
\* calls get_page with a quoted relative path.
CarriesAffordance(divs) ==
    \E k \in 1..Len(divs) : \E n \in 1..9 : divs[k] = GetPageOnclick(n)

\* parse_news_list has just handled a listing page without listing items.
EmptyPageParsed == lastList # <<>> /\ Len(lastList[1].dates) = 0

\* C4 as stated: a listing page without listing items issues no article
\* request and no next-page request, whatever else its markup contains.
C4_EmptyPageEndsCrawl ==
    EmptyPageParsed =>
      /\ lastList[1].yielded = {}
      /\ lastList[1].next_pages = {}

\* C4: a listing page without listing items issues no article request, and
\* it issues the request for the next listing page exactly when it carries a
\* continue affordance.
C4_EmptyPageFollowsAffordance ==
    EmptyPageParsed =>
      /\ lastList[1].yielded = {}
      /\ lastList[1].next_pages =
           IF CarriesAffordance(lastList[1].load_more)
           THEN {lastList[1].page + 1}
           ELSE {}

\* A listing page without items that carries the affordance: the next page
\* has been requested.
C4_EmptyPageContinues ==
    /\ EmptyPageParsed
    /\ CarriesAffordance(lastList[1].load_more)
    /\ lastList[1].next_pages = {lastList[1].page + 1}
    /\ \E req \in pending : req.kind = "list" /\ req.page = lastList[1].page + 1

\* No request is pending, and the last listing page parsed crossed the date
\* boundary or carried no continue affordance.
CrawlEnded ==
    /\ started
    /\ pending = {}
    /\ crawl.parsed >= 1
    /\ (crawl.found_previous_day \/ ~CarriesAffordance(crawl.load_more))

\* C5: under fair processing of the pending requests, every crawl that
\* start_requests starts on a site with finitely many listing pages
\* eventually has no pending request, the last listing page parsed having
\* crossed the date boundary or carried no continue affordance.
C5_CrawlTerminates == <>CrawlEnded

\* A crawl that walked past the first listing page and ended.
C5_EndedAfterPagination == CrawlEnded /\ crawl.parsed >= 2

\* The page parse_article has just handled holds no date that any strategy
\* parses.
NoDateParses ==
    /\ lastArticle[1].page.date_full \in {None, DateFullBad}
    /\ \A k \in 1..NumDateSelectors :
         lastArticle[1].page.date_others[k] \in {None, DateFullBad}

\* dt is a date-time: a day of the calendar and a time of the day.
IsDateTime(dt) ==
    /\ dt.y \in 1..9999 /\ dt.m \in 1..12 /\ dt.d \in 1..DaysInMonth(dt.y, dt.m)
    /\ dt.H \in 0..23 /\ dt.M \in 0..59 /\ dt.S \in 0..59

\* C6: the publication_date of every emitted record is a date-time, never
\* null, whatever date markup the page holds; it is the current processing
\* instant when every strategy fails.
C6_PublicationDateNeverAbsent ==
    out # <<>> =>
      /\ out[1].publication_date # NoDate
      /\ IsDateTime(out[1].publication_date)
      /\ NoDateParses => out[1].publication_date = lastArticle[1].now

\* A record for a page whose date markup is present and unparseable: its
\* publication_date is the current processing instant.
C6_DefaultedToNow ==
    /\ out # <<>>
    /\ lastArticle[1].page.date_full = DateFullBad
    /\ NoDateParses
    /\ out[1].publication_date = lastArticle[1].now

\* C8: in every emitted record notification_header, notification_text and
\* notification_source are non-null iff relevant is true; when non-null, the
\* header is the fixed string and the source is the record's url.
C8_NotificationIffRelevant ==
    out # <<>> =>
      /\ out[1].relevant <=> out[1].notification_header # None
      /\ out[1].relevant <=> out[1].notification_text # None
      /\ out[1].relevant <=> out[1].notification_source # None
      /\ out[1].relevant =>
           /\ out[1].notification_header = NotificationHeader
           /\ out[1].notification_source = out[1].url

\* A relevant record: it carries the notification, its source the url.
C8_RelevantNotified ==
    /\ out # <<>>
    /\ out[1].relevant
    /\ out[1].notification_header = NotificationHeader
    /\ out[1].notification_text # None
    /\ out[1].notification_source = out[1].url

-----------------------------------------------------------------------------
(* is_presidential_appointment on texts made of up to MaxWords words.       *)

\* "указ", "Указ", "УКАЗ", "назначение", "НАЗНАЧЕНИЕ", "Отставка",
\* "президент", "ПОЛИТИКА", "погода", "Минск"
ClassifyWords ==
    { <<"u","k","a","z">>,
      <<"U","k","a","z">>,
      <<"U","K","A","Z">>,
      <<"n","a","z","n","a","ch","e","n","i","e">>,
      <<"N","A","Z","N","A","Ch","E","N","I","E">>,
      <<"O","t","s","t","a","v","k","a">>,
      <<"p","r","e","z","i","d","e","n","t">>,
      <<"P","O","L","I","T","I","K","A">>,
      <<"p","o","g","o","d","a">>,
      <<"M","i","n","s","k">> }

\* The texts of 1 to n words of a vocabulary, a blank between two words.
TextsOf(words, n) ==
    { JoinSpace(ws) : ws \in UNION { [1..k -> words] : k \in 1..n } }

InitClassify ==
    /\ CrawlIdle
    /\ ufn = "is_presidential_appointment"
    /\ uin \in TextsOf(ClassifyWords, MaxWords)
    /\ uout = <<>>
    /\ ustage = "ready"

ApplyClassify ==
    /\ ufn = "is_presidential_appointment"
    /\ ustage = "ready"
    /\ uout' = <<IsPresidentialAppointment(uin)>>
    /\ ustage' = "done"
    /\ UNCHANGED <<crawlVars, ufn, uin>>

NextClassify == ApplyClassify

SpecClassify == InitClassify /\ [][NextClassify]_vars

\* C7: classify(text) is true iff text contains, as case-insensitive
\* substrings, a keyword of the category set and a keyword of the appointment
\* set; text with "указ" and no appointment keyword gives false, text with
\* "указ" and "назначение" gives true.
C7_ClassifyIffBothKeywords ==
    (ufn = "is_presidential_appointment" /\ ustage = "done") =>
      /\ uout[1] = Classify(uin)
      /\ (/\ ContainsCI(uin, <<"u","k","a","z">>)
          /\ ~HasKeywordCI(APPOINTMENT_PATTERNS, uin)) => uout[1] = FALSE
      /\ (/\ ContainsCI(uin, <<"u","k","a","z">>)
          /\ ContainsCI(uin, <<"n","a","z","n","a","ch","e","n","i","e">>))
         => uout[1] = TRUE

\* "УКАЗ НАЗНАЧЕНИЕ" was classified, and accepted.
C7_UpperCaseAccepted ==
    /\ ufn = "is_presidential_appointment"
    /\ ustage = "done"
    /\ uin = <<"U","K","A","Z"," ","N","A","Z","N","A","Ch","E","N","I","E">>
    /\ uout[1] = TRUE

-----------------------------------------------------------------------------
(* extract_fio on texts made of up to MaxFioWords words.                    *)

\* "Иван", "Петров", "Совет", "назначен"
FioWords ==
    { <<"I","v","a","n">>,
      <<"P","e","t","r","o","v">>,
      <<"S","o","v","e","t">>,
      <<"n","a","z","n","a","ch","e","n">> }

InitFio ==
    /\ CrawlIdle
    /\ ufn = "extract_fio"
    /\ uin \in UNION { [1..k -> FioWords] : k \in 1..MaxFioWords }
    /\ uout = <<>>
    /\ ustage = "ready"

\* extract_fio on the text the words make, a blank between two words.
ApplyFio ==
    /\ ufn = "extract_fio"
    /\ ustage = "ready"
    /\ uout' = <<ExtractFio(JoinSpace(uin), Empty)>>
    /\ ustage' = "done"
    /\ UNCHANGED <<crawlVars, ufn, uin>>

NextFio == ApplyFio

SpecFio == InitFio /\ [][NextFio]_vars

\* A capitalized token: an upper-case letter, then lower-case letters.
IsCapitalized(word) ==
    /\ Len(word) >= 2
    /\ IsUpper(word[1])
    /\ \A i \in 2..Len(word) : IsLower(word[i])

\* The candidates among the words from word i on: the runs of 2-3
\* consecutive capitalized tokens, left to right, a run of three where there
\* is a third.
RECURSIVE Candidates(_, _)
Candidates(words, i) ==
    IF i > Len(words) THEN <<>>
    ELSE IF i + 1 <= Len(words) /\ IsCapitalized(words[i]) /\ IsCapitalized(words[i + 1])
    THEN IF i + 2 <= Len(words) /\ IsCapitalized(words[i + 2])
         THEN <<SubSeq(words, i, i + 2)>> \o Candidates(words, i + 3)
         ELSE <<SubSeq(words, i, i + 1)>> \o Candidates(words, i + 2)
    ELSE Candidates(words, i + 1)

\* The candidate contains a word of the exclusion list.
HasExcludedWord(candidate) ==
    \E k \in 1..Len(candidate) : \E e \in 1..Len(excluded_words) :
        Contains(candidate[k], excluded_words[e])

\* The first of the candidates that survives, the sentinel when none does.
FirstSurvivor(candidates) ==
    IF \E k \in 1..Len(candidates) : ~HasExcludedWord(candidates[k])
    THEN JoinSpace(candidates[CHOOSE k \in 1..Len(candidates) :
                                  /\ ~HasExcludedWord(candidates[k])
                                  /\ \A j \in 1..(k - 1) : HasExcludedWord(candidates[j])])
    ELSE FioSentinel

\* C9: the result of extract_fio is the first candidate (a run of 2-3
\* consecutive capitalized tokens, in first-match order) that contains no
\* word of the exclusion list, the sentinel when none survives; it is never
\* a candidate that contains an excluded word.
C9_FirstSurvivingCandidate ==
    (ufn = "extract_fio" /\ ustage = "done") =>
      /\ uout[1] = FirstSurvivor(Candidates(uin, 1))
      /\ \A e \in 1..Len(excluded_words) : ~Contains(uout[1], excluded_words[e])

\* "Совет Петров назначен Иван Петров": the first candidate was rejected and
\* the second returned.
C9_SecondCandidateReturned ==
    /\ ufn = "extract_fio"
    /\ ustage = "done"
    /\ uin = << <<"S","o","v","e","t">>, <<"P","e","t","r","o","v">>,
                <<"n","a","z","n","a","ch","e","n">>,
                <<"I","v","a","n">>, <<"P","e","t","r","o","v">> >>
    /\ uout[1] = <<"I","v","a","n"," ","P","e","t","r","o","v">>

-----------------------------------------------------------------------------
(* extract_article_date on a page that holds one date text, a known         *)
(* date-time rendered in one of the supported encodings, at one location.   *)

\* The known date-times.
KnownDateTimes ==
    { [y |-> 2026, m |-> 1, d |-> 8, H |-> 19, M |-> 51, S |-> 0],
      [y |-> 2025, m |-> 12, d |-> 31, H |-> 23, M |-> 59, S |-> 0],
      [y |-> 2024, m |-> 2, d |-> 29, H |-> 7, M |-> 5, S |-> 0] }

\* The encodings: "<day> <monthName> <year>, <hour>:<minute>", the same
\* without the time, "Y-m-dTH:M:S", "Y-m-d H:M:S", "d.m.Y H:M", "d.m.Y".
Encodings == {"long_time", "long", "iso_t", "iso", "dotted_time", "dotted"}

\* The encoding carries the time of day.
CarriesTime(encoding) == encoding \in {"long_time", "iso_t", "iso", "dotted_time"}

RenderLong(dt) == TwoDigits(dt.d) \o <<" ">> \o ru_months[dt.m] \o <<" ">> \o FourDigits(dt.y)
RenderDay(dt) == FourDigits(dt.y) \o <<"-">> \o TwoDigits(dt.m) \o <<"-">> \o TwoDigits(dt.d)
RenderDotted(dt) == TwoDigits(dt.d) \o <<".">> \o TwoDigits(dt.m) \o <<".">> \o FourDigits(dt.y)
RenderMinute(dt) == TwoDigits(dt.H) \o <<":">> \o TwoDigits(dt.M)
RenderSecond(dt) == RenderMinute(dt) \o <<":">> \o TwoDigits(dt.S)

\* The text of a date-time in an encoding.
Render(dt, encoding) ==
    CASE encoding = "long_time" -> RenderLong(dt) \o <<",", " ">> \o RenderMinute(dt)
      [] encoding = "long" -> RenderLong(dt)
      [] encoding = "iso_t" -> RenderDay(dt) \o <<"LT">> \o RenderSecond(dt)
      [] encoding = "iso" -> RenderDay(dt) \o <<" ">> \o RenderSecond(dt)
      [] encoding = "dotted_time" -> RenderDotted(dt) \o <<" ">> \o RenderMinute(dt)
      [] encoding = "dotted" -> RenderDotted(dt)

\* The date-time an encoding renders: the time of day is midnight where the
\* encoding carries none.
Rendered(dt, encoding) ==
    IF CarriesTime(encoding) THEN dt ELSE [dt EXCEPT !.H = 0, !.M = 0, !.S = 0]

\* The article page that holds the text at a location: 0 is the .date_full
\* block, k the k-th of date_selectors.
PageWithDate(text, location) ==
    [date_full |-> IF location = 0 THEN text ELSE None,
     date_others |-> [k \in 1..NumDateSelectors |-> IF k = location THEN text ELSE None],
     has_article_body |-> FALSE, article_body |-> <<>>,
     content_selectors |-> <<>>, paragraphs |-> <<>>]

InitDate ==
    /\ CrawlIdle
    /\ ufn = "extract_article_date"
    /\ uin \in [date : KnownDateTimes, encoding : Encodings,
                location : 0..NumDateSelectors, now : NowValues]
    /\ uout = <<>>
    /\ ustage = "ready"

ApplyDate ==
    /\ ufn = "extract_article_date"
    /\ ustage = "ready"
    /\ uout' = <<ExtractArticleDate(PageWithDate(Render(uin.date, uin.encoding),
                                                 uin.location),
                                    uin.now)>>
    /\ ustage' = "done"
    /\ UNCHANGED <<crawlVars, ufn, uin>>

NextDate == ApplyDate

SpecDate == InitDate /\ [][NextDate]_vars

\* C10: a known date-time rendered into any supported encoding and parsed
\* back yields the identical calendar date and time, whichever page location
\* the text is read from.
C10_DateRoundTrip ==
    (ufn = "extract_article_date" /\ ustage = "done") =>
      uout[1] = Rendered(uin.date, uin.encoding)

-----------------------------------------------------------------------------
(* The listing-stage filter.                                                *)

\* classify(title + " " + snippet)
PassedListingFilter(title, snippet) == Classify(title \o <<" ">> \o snippet)

\* C11: parse_news_list issues an article request for a listing item only if
\* the item has a title and a link and classify(title + " " + snippet) is
\* true: every article request, and every record the crawl emits, relevant
\* or not, carries a title and a snippet that passed classify together, and
\* the item that fails classify (the undated one of the site's items) is
\* issued no request.
C11_ListingPreFilter ==
    /\ \A req \in pending :
         req.kind = "article" =>
           /\ Truthy(req.title)
           /\ Truthy(req.url)
           /\ PassedListingFilter(req.title, req.snippet)
    /\ out # <<>> => PassedListingFilter(out[1].title, out[1].snippet)
    /\ lastList # <<>> =>
         \A k \in 1..Len(lastList[1].dates) :
            lastList[1].dates[k].day = None => k \notin lastList[1].yielded

\* A record that is not relevant, of an item whose title alone fails
\* classify and whose title and snippet together pass it.
C11_AdmittedBySnippet ==
    /\ out # <<>>
    /\ ~Classify(out[1].title)
    /\ PassedListingFilter(out[1].title, out[1].snippet)
    /\ ~out[1].relevant

=============================================================================
